---------------------------- MODULE Spec2Model ----------------------------
(***************************************************************************)
(* Model of the financial engine of economics-npv-client:                  *)
(*   logic.py  calculate_lcm, generate_cash_flows, calculate_npv           *)
(*   main.py   run_full_analysis                                           *)
(*                                                                         *)
(* The functions of logic.py are pure.  Each behaviour of Spec draws the   *)
(* arguments of one call in Init and the action of that function applies   *)
(* it, leaving the returned value in ret.                                  *)
(*                                                                         *)
(* SessionSpec is the Streamlit session of main.py: every interaction runs *)
(* the script once, and an action is that whole run, down to the results   *)
(* section and its cached call of run_full_analysis.                       *)
(*                                                                         *)
(* Monetary amounts are floats in the source.  They are modelled exactly:  *)
(* cash flows as integers, discounted values as fractions <<n, d>> in      *)
(* lowest terms.  d = 0 encodes the IEEE specials a division by a zero     *)
(* discount factor produces: <<1,0>> = inf, <<-1,0>> = -inf, <<0,0>> = nan.*)
(* Arrays (numpy arrays, lists) are functions on 0..len-1.                 *)
(***************************************************************************)
EXTENDS Integers, Sequences, FiniteSets, TLC

VARIABLES
    op,            \* the function the behaviour calls
    pc,            \* "call" before the call, "return" after it
    numbers,       \* calculate_lcm: numbers
    project,       \* generate_cash_flows: the keyword arguments but study_period
    study_period,  \* generate_cash_flows: study_period
    flows,         \* calculate_npv: flows
    marr_percent,  \* calculate_npv: marr_percent; run_full_analysis: marr
    project_list,  \* run_full_analysis: project_list
    ret,           \* the value the call returned
    session_projects, \* st.session_state.projects
    show_results,  \* st.session_state.show_results
    session_marr,  \* marr, the value of the MARR (%) input
    cache,         \* the entries st.cache_data holds for run_full_analysis
    shown,         \* the analysis the latest run displayed: <<>> or <<result>>
    served,        \* how the latest run got it: "none", "miss" or "hit"
    to_delete,     \* the option Delete Selected was pressed on in the latest
                   \* run; the placeholder when it was not pressed
    defaults_kept, \* every project so far was added under the name the form
                   \* proposed
    steps          \* the number of interactions so far

logic_vars == <<op, pc, numbers, project, study_period, flows, marr_percent,
                project_list, ret>>

session_vars == <<session_projects, show_results, session_marr, cache, shown,
                  served, to_delete, defaults_kept, steps>>

vars == <<logic_vars, session_vars>>

---------------------------------------------------------------------------
(* Bounds of the input domains *)

MaxLife == 6       \* life spans range over -1..MaxLife
MaxLen == 3        \* calculate_lcm: longest list of life spans
MaxStudy == 4      \* generate_cash_flows: study periods range over 0..MaxStudy
MaxYear == 3       \* calculate_npv: series run over years 0..n, n <= MaxYear
MaxProjects == 2   \* run_full_analysis: longest project list
MaxSpan == 3       \* run_full_analysis: life spans range over -1..MaxSpan
MaxSession == 2    \* session: longest list of projects
MaxSteps == 5      \* session: most interactions

---------------------------------------------------------------------------
(* Arrays *)

Len0(a) == Cardinality(DOMAIN a)

EmptyArray == [i \in {} |-> 0]

---------------------------------------------------------------------------
(* logic.py: calculate_lcm *)

Abs(x) == IF x < 0 THEN -x ELSE x

RECURSIVE Gcd(_, _)
Gcd(a, b) == IF b = 0 THEN a ELSE Gcd(b, a % b)

\* Fault variant: the product, not divided by the gcd
Lcm2Product(a, b) == a * b

\* math.lcm of two non-negative integers: 0 as soon as one argument is 0

Lcm2(a, b) == IF a = 0 \/ b = 0 THEN 0 ELSE (a \div Gcd(a, b)) * b

\* Fault variant: the longest life, not the least common multiple
RECURSIVE MathMax(_)
MathMax(integers) ==
    IF integers = <<>> THEN 1
    ELSE LET rest == MathMax(SubSeq(integers, 1, Len(integers) - 1))
             last == integers[Len(integers)]
         IN  IF last > rest THEN last ELSE rest

\* math.lcm(*integers): folded from math.lcm() = 1
RECURSIVE MathLcm(_)
MathLcm(integers) ==
    IF integers = <<>> THEN 1
    ELSE Lcm2(MathLcm(SubSeq(integers, 1, Len(integers) - 1)),
              integers[Len(integers)])

IsPositive(n) == n > 0

IsNonNegative(n) == n >= 0

\* Fault variant: the filter n >= 0
PositiveIntegersOrZero(nums) == SelectSeq(nums, IsNonNegative)

\* integers = [int(n) for n in numbers if n > 0]; int() of an integer is itself

PositiveIntegers(nums) == SelectSeq(nums, IsPositive)

calculate_lcm(nums) ==
    IF nums = <<>> THEN 0
    ELSE LET integers == PositiveIntegers(nums)
         IN  IF integers = <<>> THEN 0 ELSE MathLcm(integers)

---------------------------------------------------------------------------
(* logic.py: generate_cash_flows *)

\* np.zeros(study_period + 1)
ZeroSeries(N) == [t \in 0 .. N |-> 0]

\* Fault variant: the investment negated without abs()
Year0Signed(investment) == -investment

\* flows[0] = -abs(investment)

Year0(investment) == -Abs(investment)

\* Fault variant: the replacement subtracted at the end of the study too
YearStepAlwaysReplace(fl, t, net_annual, salvage, replacement, life_span, N) ==
    LET operated == [fl EXCEPT ![t] = @ + net_annual]
    IN  IF t % life_span = 0
        THEN [operated EXCEPT ![t] = @ + salvage - replacement]
        ELSE operated

\* The body of the loop for year t
YearStep(fl, t, net_annual, salvage, replacement, life_span, N) ==
    LET operated == [fl EXCEPT ![t] = @ + net_annual]
    IN  IF t % life_span = 0
        THEN LET retired == [operated EXCEPT ![t] = @ + salvage]
             IN  IF t /= N
                 THEN [retired EXCEPT ![t] = @ - replacement]
                 ELSE retired
        ELSE operated

\* for t in range(1, study_period + 1)
RECURSIVE YearLoop(_, _, _, _, _, _, _)
YearLoop(fl, t, net_annual, salvage, replacement, life_span, N) ==
    IF t > N THEN fl
    ELSE YearLoop(YearStep(fl, t, net_annual, salvage, replacement, life_span, N),
                  t + 1, net_annual, salvage, replacement, life_span, N)

\* The function past its guard on life_span
ProjectFlows(investment, revenue, cost, savings, salvage, replacement, life_span, N) ==
    LET net_annual == revenue - cost + savings
        initial == [ZeroSeries(N) EXCEPT ![0] = Year0(investment)]
    IN  YearLoop(initial, 1, net_annual, salvage, replacement, life_span, N)

\* Fault variant: np.zeros(study_period) for a life span <= 0
generate_cash_flows_short(investment, revenue, cost, savings, salvage, replacement, life_span, N) ==
    IF life_span <= 0 THEN [t \in 0 .. N - 1 |-> 0]
    ELSE ProjectFlows(investment, revenue, cost, savings, salvage, replacement,
                      life_span, N)

\* Fault variant: the guard on life_span placed after flows[0] is set
generate_cash_flows_late_guard(investment, revenue, cost, savings, salvage, replacement, life_span, N) ==
    IF life_span <= 0 THEN [ZeroSeries(N) EXCEPT ![0] = Year0(investment)]
    ELSE ProjectFlows(investment, revenue, cost, savings, salvage, replacement,
                      life_span, N)

\* generate_cash_flows(investment, ..., life_span, study_period)
generate_cash_flows(investment, revenue, cost, savings, salvage, replacement, life_span, N) ==
    IF life_span <= 0 THEN ZeroSeries(N)
    ELSE ProjectFlows(investment, revenue, cost, savings, salvage, replacement,
                      life_span, N)

---------------------------------------------------------------------------
(* Exact arithmetic for the float operations of calculate_npv *)

Inf == <<1, 0>>
NegInf == <<-1, 0>>
NaN == <<0, 0>>

IsFinite(x) == x[2] /= 0

\* n / d for d /= 0, in lowest terms with a positive denominator
Frac(n, d) ==
    LET g == Gcd(Abs(n), Abs(d))
        s == IF d < 0 THEN -1 ELSE 1
    IN  <<(s * n) \div g, (s * d) \div g>>

Whole(n) == <<n, 1>>

RECURSIVE IntPow(_, _)
IntPow(b, k) == IF k = 0 THEN 1 ELSE b * IntPow(b, k - 1)

\* x ** k for finite x and an integer k >= 0; 0.0 ** 0 is 1.0
Pow(x, k) == <<IntPow(x[1], k), IntPow(x[2], k)>>

\* A common denominator of finite x and y
Denominator(x, y) == (x[2] \div Gcd(x[2], y[2])) * y[2]

\* x + y
Add(x, y) ==
    IF IsFinite(x) /\ IsFinite(y)
    THEN LET m == Denominator(x, y)
         IN  Frac(x[1] * (m \div x[2]) + y[1] * (m \div y[2]), m)
    ELSE IF x = NaN \/ y = NaN THEN NaN
    ELSE IF IsFinite(x) THEN y
    ELSE IF IsFinite(y) THEN x
    ELSE IF x = y THEN x ELSE NaN

\* Fault variant: f * x, compounding where the code discounts
Times(f, x) == Frac(f * x[1], x[2])

\* f / x for a finite float f (a cash flow) and a finite x
Div(f, x) ==
    IF x[1] /= 0 THEN Frac(f * x[2], x[1])
    ELSE IF f > 0 THEN Inf
    ELSE IF f < 0 THEN NegInf
    ELSE NaN

\* x < y for finite x and y
Less(x, y) ==
    LET m == Denominator(x, y)
    IN  x[1] * (m \div x[2]) < y[1] * (m \div y[2])

Leq(x, y) == ~Less(y, x)

---------------------------------------------------------------------------
(* logic.py: calculate_npv *)

\* Fault variant: the percentage taken as the rate
RateUnscaled(marr) == Whole(marr)

\* r = marr_percent / 100.0
Rate(marr) == Frac(marr, 100)

\* Fault variant: np.arange(1, len(flows) + 1)
TimeIndicesFromOne(fl) == [i \in DOMAIN fl |-> i + 1]

\* time_indices = np.arange(len(flows))
TimeIndices(fl) == [i \in DOMAIN fl |-> i]

\* Fault variant: (1 + r) * time_indices
DiscountFactorsProduct(r, time_indices) ==
    [i \in DOMAIN time_indices |->
         LET q == Add(Whole(1), r) IN Frac(q[1] * time_indices[i], q[2])]

\* discount_factors = (1 + r) ** time_indices
DiscountFactors(r, time_indices) ==
    [i \in DOMAIN time_indices |-> Pow(Add(Whole(1), r), time_indices[i])]

\* np.sum of the first n entries of a; the sum of no entry is 0.0
RECURSIVE NpSumUpTo(_, _)
NpSumUpTo(a, n) == IF n = 0 THEN Whole(0) ELSE Add(NpSumUpTo(a, n - 1), a[n - 1])

NpSum(a) == NpSumUpTo(a, Len0(a))

calculate_npv(fl, marr) ==
    LET r == Rate(marr)
        time_indices == TimeIndices(fl)
        discount_factors == DiscountFactors(r, time_indices)
    IN  NpSum([i \in DOMAIN fl |-> Div(fl[i], discount_factors[i])])

\* Fault variant: flows //= discount_factors, the division done in place
FlowsDividedInPlace(fl, marr) ==
    LET discount_factors == DiscountFactors(Rate(marr), TimeIndices(fl))
    IN  [i \in DOMAIN fl |->
             LET x == Div(fl[i], discount_factors[i])
             IN  IF IsFinite(x) THEN x[1] \div x[2] ELSE fl[i]]

\* The array flows once calculate_npv has returned: the quotient and the sum
\* are new arrays, no statement assigns to flows or to an entry of it
FlowsAfterNpv(fl, marr) == fl

---------------------------------------------------------------------------
(* main.py: run_full_analysis *)
(* A DataFrame is the sequence of its rows.  The dict detailed_flows is    *)
(* the sequence of its items [key, value] in insertion order.  The         *)
(* returned tuple is a record; winner is <<>> for None and <<row>> for a   *)
(* row of results_df.  The record also carries calls, the calls of logic   *)
(* the run made with their study period and series length: an observation  *)
(* of the run, not a component of the returned tuple.                      *)

NoAnalysis ==
    [study_period |-> 0, results_df |-> <<>>, detailed_flows |-> <<>>,
     winner |-> <<>>, calls |-> <<>>]

HasLifeOrNone(p) == p.life_span >= 0

\* df["Life Span (Years)"] > 0
HasLife(p) == p.life_span > 0

\* Fault variant: the filter >= 0
SanitizeNonNegative(df) == SelectSeq(df, HasLifeOrNone)

\* df = df[df["Life Span (Years)"] > 0]
Sanitize(df) == SelectSeq(df, HasLife)

\* row.get("Project Name") or "Unnamed Project"
DisplayName(name) == IF name = "" THEN "Unnamed Project" ELSE name

\* d[k] = v
DictSet(d, k, v) ==
    IF \E i \in 1 .. Len(d) : d[i].key = k
    THEN [i \in 1 .. Len(d) |->
              IF d[i].key = k THEN [key |-> k, value |-> v] ELSE d[i]]
    ELSE Append(d, [key |-> k, value |-> v])

\* The body of the loop for one row of df
AnalyseRow(acc, row, N, marr) ==
    LET name == DisplayName(row.name)
        life_span_val == row.life_span
        fl == generate_cash_flows(row.investment, row.revenue, row.cost,
                                  row.savings, row.salvage, row.replacement,
                                  life_span_val, N)
        npv == calculate_npv(fl, marr)
    IN  [detailed_flows |-> DictSet(acc.detailed_flows, name,
                                    FlowsAfterNpv(fl, marr)),
         results |-> Append(acc.results,
                            [name |-> name, npv |-> npv,
                             life_span |-> life_span_val]),
         calls |-> acc.calls \o
                   <<[fn |-> "generate_cash_flows", study_period |-> N],
                     [fn |-> "calculate_npv", study_period |-> Len0(fl) - 1]>>]

\* for _, row in df.iterrows(), over the first n rows
RECURSIVE AnalyseRows(_, _, _, _)
AnalyseRows(df, n, N, marr) ==
    IF n = 0 THEN [detailed_flows |-> <<>>, results |-> <<>>, calls |-> <<>>]
    ELSE AnalyseRow(AnalyseRows(df, n - 1, N, marr), df[n], N, marr)

\* Fault variant: idxmin()
RECURSIVE IdxMinUpTo(_, _)
IdxMinUpTo(results_df, n) ==
    IF n = 1 THEN 1
    ELSE LET best == IdxMinUpTo(results_df, n - 1)
         IN  IF Less(results_df[n].npv, results_df[best].npv) THEN n ELSE best

IdxMin(results_df) == IdxMinUpTo(results_df, Len(results_df))

\* Fault variant: the last row holding the greatest NPV
RECURSIVE IdxMaxLastUpTo(_, _)
IdxMaxLastUpTo(results_df, n) ==
    IF n = 1 THEN 1
    ELSE LET best == IdxMaxLastUpTo(results_df, n - 1)
         IN  IF Leq(results_df[best].npv, results_df[n].npv) THEN n ELSE best

IdxMaxLast(results_df) == IdxMaxLastUpTo(results_df, Len(results_df))

\* results_df['NPV'].idxmax(): the first row holding the greatest NPV
RECURSIVE IdxMaxUpTo(_, _)
IdxMaxUpTo(results_df, n) ==
    IF n = 1 THEN 1
    ELSE LET best == IdxMaxUpTo(results_df, n - 1)
         IN  IF Less(results_df[best].npv, results_df[n].npv) THEN n ELSE best

IdxMax(results_df) == IdxMaxUpTo(results_df, Len(results_df))

\* The loop over df, results_df, the winner and the return
Conclude(df, N, marr) ==
    LET done == AnalyseRows(df, Len(df), N, marr)
        results_df == done.results
    IN  [study_period |-> N,
         results_df |-> results_df,
         detailed_flows |-> done.detailed_flows,
         winner |-> IF results_df /= <<>>
                    THEN <<results_df[IdxMax(results_df)]>>
                    ELSE <<>>,
         calls |-> done.calls]

\* Fault variant: neither the filter on the life span nor the returns on an
\* empty df and on a study period of 0
run_full_analysis_unguarded(projects, marr) ==
    IF projects = <<>> THEN NoAnalysis
    ELSE Conclude(projects,
                  calculate_lcm([i \in 1 .. Len(projects) |-> projects[i].life_span]),
                  marr)

run_full_analysis(projects, marr) ==
    IF projects = <<>> THEN NoAnalysis
    ELSE LET df == Sanitize(projects)
         IN  IF df = <<>> THEN NoAnalysis
             ELSE LET lives == [i \in 1 .. Len(df) |-> df[i].life_span]
                      N == calculate_lcm(lives)
                  IN  IF N = 0 THEN NoAnalysis
                      ELSE Conclude(df, N, marr)

---------------------------------------------------------------------------
(* Input domains *)

Lives == -1 .. MaxLife

RECURSIVE SeqsUpTo(_, _)
SeqsUpTo(S, n) ==
    IF n = 0 THEN {<<>>}
    ELSE LET shorter == SeqsUpTo(S, n - 1)
         IN  shorter \cup {Append(s, x) : s \in {t \in shorter : Len(t) = n - 1}, x \in S}

LifeLists == SeqsUpTo(Lives, MaxLen)

NoProject ==
    [name |-> "", life_span |-> 0, investment |-> 0, replacement |-> 0,
     revenue |-> 0, salvage |-> 0, cost |-> 0, savings |-> 0]

\* Arguments of generate_cash_flows
Projects ==
    [name : {""}, life_span : Lives, investment : {-1000, 0, 1000},
     replacement : {0, 1000}, revenue : {0, 300}, salvage : {0, 200},
     cost : {0, 100}, savings : {0, 50}]

\* Arguments of calculate_npv
FlowValues == {-100, 0, 110, 200, 1000}

FlowSeries ==
    {EmptyArray} \cup UNION {[0 .. n -> FlowValues] : n \in 0 .. MaxYear}

Rates == {-100, -50, 0, 10, 100}

\* Arguments of run_full_analysis
Spans == -1 .. MaxSpan

Profiles ==
    { [investment |-> 100, revenue |-> 40, cost |-> 10, savings |-> 5,
       salvage |-> 20, replacement |-> 100],
      [investment |-> 60, revenue |-> 25, cost |-> 5, savings |-> 0,
       salvage |-> 0, replacement |-> 60],
      [investment |-> 0, revenue |-> 0, cost |-> 0, savings |-> 0,
       salvage |-> 0, replacement |-> 0] }

Candidates ==
    { [name |-> n, life_span |-> l, investment |-> f.investment,
       replacement |-> f.replacement, revenue |-> f.revenue,
       salvage |-> f.salvage, cost |-> f.cost, savings |-> f.savings] :
      n \in {"", "A"}, l \in Spans, f \in Profiles }

ProjectLists == SeqsUpTo(Candidates, MaxProjects)

Marrs == {0, 50}

---------------------------------------------------------------------------
(* The calls *)

InitLcm ==
    /\ op = "calculate_lcm"
    /\ numbers \in LifeLists
    /\ project = NoProject
    /\ study_period = 0
    /\ flows = EmptyArray
    /\ marr_percent = 0
    /\ project_list = <<>>

InitFlows ==
    /\ op = "generate_cash_flows"
    /\ numbers = <<>>
    /\ project \in Projects
    /\ study_period \in 0 .. MaxStudy
    /\ flows = EmptyArray
    /\ marr_percent = 0
    /\ project_list = <<>>

InitNpv ==
    /\ op = "calculate_npv"
    /\ numbers = <<>>
    /\ project = NoProject
    /\ study_period = 0
    /\ flows \in FlowSeries
    /\ marr_percent \in Rates
    /\ project_list = <<>>

InitAnalysis ==
    /\ op = "run_full_analysis"
    /\ numbers = <<>>
    /\ project = NoProject
    /\ study_period = 0
    /\ flows = EmptyArray
    /\ marr_percent \in Marrs
    /\ project_list \in ProjectLists

\* main.py:28-32 and the default of the MARR input; nothing cached or shown
SessionStart ==
    /\ session_projects = <<>>
    /\ show_results = FALSE
    /\ session_marr = 10
    /\ cache = {}
    /\ shown = <<>>
    /\ served = "none"
    /\ to_delete = "Select..."
    /\ defaults_kept = TRUE
    /\ steps = 0

Init ==
    /\ pc = "call"
    /\ ret = 0
    /\ (InitLcm \/ InitFlows \/ InitNpv \/ InitAnalysis)
    /\ SessionStart

CallCalculateLcm ==
    /\ pc = "call"
    /\ op = "calculate_lcm"
    /\ ret' = calculate_lcm(numbers)
    /\ pc' = "return"
    /\ UNCHANGED <<op, numbers, project, study_period, flows, marr_percent,
                   project_list>>
    /\ UNCHANGED session_vars

CallGenerateCashFlows ==
    /\ pc = "call"
    /\ op = "generate_cash_flows"
    /\ ret' = generate_cash_flows(project.investment, project.revenue,
                                  project.cost, project.savings, project.salvage,
                                  project.replacement, project.life_span,
                                  study_period)
    /\ pc' = "return"
    /\ UNCHANGED <<op, numbers, project, study_period, flows, marr_percent,
                   project_list>>
    /\ UNCHANGED session_vars

CallCalculateNpv ==
    /\ pc = "call"
    /\ op = "calculate_npv"
    /\ ret' = calculate_npv(flows, marr_percent)
    /\ flows' = FlowsAfterNpv(flows, marr_percent)
    /\ pc' = "return"
    /\ UNCHANGED <<op, numbers, project, study_period, marr_percent,
                   project_list>>
    /\ UNCHANGED session_vars

CallRunFullAnalysis ==
    /\ pc = "call"
    /\ op = "run_full_analysis"
    /\ ret' = run_full_analysis(project_list, marr_percent)
    /\ pc' = "return"
    /\ UNCHANGED <<op, numbers, project, study_period, flows, marr_percent,
                   project_list>>
    /\ UNCHANGED session_vars

Next ==
    \/ CallCalculateLcm
    \/ CallGenerateCashFlows
    \/ CallCalculateNpv
    \/ CallRunFullAnalysis

Spec == Init /\ [][Next]_vars

---------------------------------------------------------------------------
(* main.py: the session *)

\* Fault variant: the cache keyed on the rate alone
CacheKeyRateOnly(list, rate) == <<<<>>, rate>>

\* @st.cache_data: an entry is found by the value of the arguments
CacheKey(list, rate) == <<list, rate>>

\* run_full_analysis(st.session_state.projects, marr) through the cache
CachedAnalysis(entries, list, rate) ==
    LET key == CacheKey(list, rate)
    IN  IF \E e \in entries : e.key = key
        THEN [value |-> (CHOOSE e \in entries : e.key = key).value,
              entries |-> entries, served |-> "hit"]
        ELSE LET value == run_full_analysis(list, rate)
             IN  [value |-> value,
                  entries |-> entries \cup {[key |-> key, value |-> value]},
                  served |-> "miss"]

\* The results section of a run that ends with the list, the flag and the rate
\* given
ResultsSection(list, flag, rate) ==
    IF flag /\ list /= <<>>
    THEN LET got == CachedAnalysis(cache, list, rate)
         IN  /\ cache' = got.entries
             /\ served' = got.served
             /\ shown' = IF got.value.study_period > 0 /\ got.value.winner /= <<>>
                         THEN <<got.value>> ELSE <<>>
    ELSE /\ cache' = cache
         /\ served' = "none"
         /\ shown' = <<>>

\* f"Project {len(st.session_state.projects) + 1}"
DefaultName(list) ==
    <<"Project 1", "Project 2", "Project 3", "Project 4">>[Len(list) + 1]

\* What the form can submit
FormNames(list) == {DefaultName(list), "A", ""}

FormLives == {1, 2}

NewProject(name, life) ==
    [name |-> name, life_span |-> life, investment |-> 100,
     replacement |-> 100, revenue |-> 40, salvage |-> 20, cost |-> 10,
     savings |-> 5]

Interaction ==
    /\ steps < MaxSteps
    /\ steps' = steps + 1
    /\ UNCHANGED logic_vars

SessionInit ==
    /\ op = "session"
    /\ pc = "idle"
    /\ numbers = <<>>
    /\ project = NoProject
    /\ study_period = 0
    /\ flows = EmptyArray
    /\ marr_percent = 0
    /\ project_list = <<>>
    /\ ret = 0
    /\ SessionStart

\* A new value in the MARR (%) input: the script runs with no button pressed
ChangeMarr ==
    /\ Interaction
    /\ \E m \in {0, 10} :
           /\ m /= session_marr
           /\ session_marr' = m
    /\ UNCHANGED <<session_projects, show_results>>
    /\ to_delete' = "Select..."
    /\ UNCHANGED defaults_kept
    /\ ResultsSection(session_projects, show_results, session_marr')

ClearAllProjects ==
    /\ Interaction
    /\ session_projects' = <<>>
    /\ show_results' = FALSE
    /\ UNCHANGED <<session_marr, defaults_kept>>
    /\ to_delete' = "Select..."
    /\ ResultsSection(session_projects', show_results', session_marr)

\* Fault variant: a project added without st.session_state.show_results = False
AddProjectKeepingResults ==
    /\ Interaction
    /\ Len(session_projects) < MaxSession
    /\ \E name \in FormNames(session_projects), life \in FormLives :
           /\ session_projects' = Append(session_projects, NewProject(name, life))
           /\ defaults_kept' = (defaults_kept /\ name = DefaultName(session_projects))
    /\ UNCHANGED <<show_results, session_marr>>
    /\ to_delete' = "Select..."
    /\ ResultsSection(session_projects', show_results', session_marr)

AddProject ==
    /\ Interaction
    /\ Len(session_projects) < MaxSession
    /\ \E name \in FormNames(session_projects), life \in FormLives :
           /\ session_projects' = Append(session_projects, NewProject(name, life))
           /\ defaults_kept' = (defaults_kept /\ name = DefaultName(session_projects))
    /\ show_results' = FALSE
    /\ UNCHANGED session_marr
    /\ to_delete' = "Select..."
    /\ ResultsSection(session_projects', show_results', session_marr)

\* The options of the selectbox
Selectable(list) == {"Select..."} \cup {list[i].name : i \in 1 .. Len(list)}

DeleteSelected ==
    /\ Interaction
    /\ session_projects /= <<>>
    /\ to_delete' \in Selectable(session_projects)
    /\ IF to_delete' /= "" /\ to_delete' /= "Select..."
       THEN /\ session_projects' = SelectSeq(session_projects,
                                             LAMBDA p : p.name /= to_delete')
            /\ show_results' = FALSE
       ELSE UNCHANGED <<session_projects, show_results>>
    /\ UNCHANGED <<session_marr, defaults_kept>>
    /\ ResultsSection(session_projects', show_results', session_marr)

CalculateAnalysis ==
    /\ Interaction
    /\ session_projects /= <<>>
    /\ show_results' = TRUE
    /\ UNCHANGED <<session_projects, session_marr, defaults_kept>>
    /\ to_delete' = "Select..."
    /\ ResultsSection(session_projects, show_results', session_marr)

SessionNext ==
    \/ ChangeMarr
    \/ ClearAllProjects
    \/ AddProject
    \/ DeleteSelected
    \/ CalculateAnalysis

SessionSpec == SessionInit /\ [][SessionNext]_vars

---------------------------------------------------------------------------
(* Properties of generate_cash_flows *)

Generated == op = "generate_cash_flows" /\ pc = "return"

\* C1: with a life span L > 0, every year t in 1..N holds the net annual flow,
\* plus the salvage if t is a multiple of L, minus the replacement if t is a
\* multiple of L other than N; investment 1000, replacement 1000, nothing
\* else, L = 2, N = 4 gives flows[2] = -1000 and flows[4] = 0.
C1_YearlyFlows ==
    (Generated /\ project.life_span > 0) =>
        LET L == project.life_span
            N == study_period
            net == project.revenue - project.cost + project.savings
        IN  /\ \A t \in 1 .. N :
                  ret[t] = net + (IF t % L = 0 THEN project.salvage ELSE 0)
                               - (IF t % L = 0 /\ t /= N
                                  THEN project.replacement ELSE 0)
            /\ (/\ project.investment = 1000 /\ project.replacement = 1000
                /\ project.salvage = 0 /\ net = 0 /\ L = 2 /\ N = 4)
               => (ret[2] = -1000 /\ ret[4] = 0)

C1_Witness ==
    /\ Generated
    /\ project.life_span = 2 /\ study_period = 4
    /\ project.investment = 1000 /\ project.replacement = 1000
    /\ project.salvage = 200 /\ project.revenue = 300
    /\ ret[2] = 300 - project.cost + project.savings + 200 - 1000
    /\ ret[4] = 300 - project.cost + project.savings + 200

\* C5: the returned series has exactly N+1 entries, for the years 0..N, also
\* when the life span is <= 0 and when N = 0.
C5_SeriesLength ==
    Generated => (DOMAIN ret = 0 .. study_period /\ Len0(ret) = study_period + 1)

C5_Witness ==
    /\ Generated
    /\ project.life_span <= 0
    /\ study_period = 0
    /\ Len0(ret) = 1

\* C6 as claimed: entry 0 is -|investment| for every call, whatever the life span.
C6_Year0AnyLife == Generated => ret[0] = -Abs(project.investment)

\* C6 as amended: with a life span > 0 entry 0 is -|investment|, hence <= 0,
\* with nothing else added to it; with a life span <= 0 entry 0 is 0.
C6_Year0 ==
    Generated =>
        /\ project.life_span > 0 =>
               (ret[0] = -Abs(project.investment) /\ ret[0] <= 0)
        /\ project.life_span <= 0 => ret[0] = 0

C6_Witness ==
    /\ Generated
    /\ project.life_span = 1
    /\ project.investment = -1000
    /\ project.revenue = 300 /\ project.salvage = 200
    /\ study_period > 0
    /\ ret[0] = -1000

\* C7: with a life span <= 0 the series has N+1 entries, all zero, whatever
\* the amounts of the project.
C7_InvalidLifeAllZero ==
    (Generated /\ project.life_span <= 0) =>
        /\ DOMAIN ret = 0 .. study_period
        /\ \A t \in 0 .. study_period : ret[t] = 0

C7_Witness ==
    /\ Generated
    /\ project.life_span = 0
    /\ project.investment = 1000 /\ project.revenue = 300
    /\ project.salvage = 200 /\ project.replacement = 1000
    /\ study_period = MaxStudy
    /\ \A t \in 0 .. study_period : ret[t] = 0

---------------------------------------------------------------------------
(* Properties of calculate_lcm *)

Resolved == op = "calculate_lcm" /\ pc = "return"

PositiveEntries(nums) == {nums[i] : i \in {j \in 1 .. Len(nums) : nums[j] > 0}}

\* C2: when the list holds a positive entry the result is the smallest
\* positive integer every positive entry divides; [3,4] gives 12, [2,5] gives
\* 10, [5,5] gives 5.
C2_LeastCommonMultiple ==
    Resolved =>
        /\ PositiveEntries(numbers) /= {} =>
               /\ ret > 0
               /\ \A x \in PositiveEntries(numbers) : ret % x = 0
               /\ \A m \in 1 .. ret - 1 :
                      \E x \in PositiveEntries(numbers) : m % x /= 0
        /\ numbers = <<3, 4>> => ret = 12
        /\ numbers = <<2, 5>> => ret = 10
        /\ numbers = <<5, 5>> => ret = 5

C2_Witness == Resolved /\ numbers = <<3, 4>> /\ ret = 12

\* C8: the result is 0 exactly when the list holds no positive entry, and is
\* positive otherwise.
C8_ZeroIffNoPositive ==
    Resolved =>
        /\ ret = 0 <=> PositiveEntries(numbers) = {}
        /\ PositiveEntries(numbers) /= {} => ret > 0

C8_Witness ==
    /\ Resolved
    /\ Len(numbers) = 2
    /\ numbers[1] = 0 /\ numbers[2] = -1
    /\ ret = 0

\* C9: the result is the result for the list without its entries <= 0,
\* wherever they sit; [-1, 6] gives 6.
C9_NonPositiveIgnored ==
    Resolved =>
        /\ ret = calculate_lcm(SelectSeq(numbers, LAMBDA n : n > 0))
        /\ numbers = <<-1, 6>> => ret = 6

C9_Witness ==
    /\ Resolved
    /\ Len(numbers) = 3
    /\ numbers[1] = 4 /\ numbers[2] <= 0 /\ numbers[3] = 6
    /\ ret = 12

---------------------------------------------------------------------------
(* Properties of calculate_npv *)

Discounted == op = "calculate_npv" /\ pc = "return"

\* The sum over t = 0..n of fl[t] / q^t
RECURSIVE PresentValueUpTo(_, _, _)
PresentValueUpTo(fl, q, n) ==
    IF n < 0 THEN Whole(0)
    ELSE Add(PresentValueUpTo(fl, q, n - 1), Div(fl[n], Pow(q, n)))

\* C3: for a series of the years 0..N and r = rate_percent/100 other than -1,
\* the result is the sum over t = 0..N of flows[t] / (1+r)^t, t being the
\* index of the entry.
C3_DiscountedSum ==
    (Discounted /\ marr_percent /= -100) =>
        ret = PresentValueUpTo(flows, Frac(100 + marr_percent, 100),
                               Len0(flows) - 1)

C3_Witness ==
    /\ Discounted
    /\ marr_percent = 10
    /\ Len0(flows) = 3
    /\ flows[0] = -100 /\ flows[1] = 110 /\ flows[2] = 1000
    /\ ret = <<100000, 121>>

---------------------------------------------------------------------------
(* Properties of run_full_analysis *)

Analysed == op = "run_full_analysis" /\ pc = "return"

Participants == SelectSeq(project_list, LAMBDA p : p.life_span > 0)

\* C4: the winner is a row of the results, the row of a participating
\* project, and no participating project has a greater NPV; of two projects
\* with NPVs v1 < v2 the one with v2 wins, in either order of listing.
C4_WinnerHasGreatestNpv ==
    (Analysed /\ ret.winner /= <<>>) =>
        LET winner == ret.winner[1]
            rows == ret.results_df
        IN  /\ Len(rows) = Len(Participants)
            /\ \E i \in 1 .. Len(rows) :
                   /\ rows[i] = winner
                   /\ winner.name = DisplayName(Participants[i].name)
                   /\ winner.life_span = Participants[i].life_span
            /\ \A i \in 1 .. Len(rows) : Leq(rows[i].npv, winner.npv)
            /\ Len(rows) = 2 =>
                   /\ Less(rows[1].npv, rows[2].npv) => winner = rows[2]
                   /\ Less(rows[2].npv, rows[1].npv) => winner = rows[1]

C4_Witness ==
    /\ Analysed
    /\ Len(ret.results_df) = 2
    /\ Less(ret.results_df[1].npv, ret.results_df[2].npv)
    /\ ret.winner = <<ret.results_df[2]>>

\* C10: a project with a life span <= 0 is left out before the study period
\* is computed: the study period is the least common multiple of the life
\* spans of the others, the results have one row for each of the others and
\* none for it, every column of the matrix is the column of one of the
\* others, and the winner is one of the others.
C10_InvalidLifeExcluded ==
    Analysed =>
        LET lives == {Participants[i].life_span : i \in 1 .. Len(Participants)}
            N == ret.study_period
            rows == ret.results_df
            matrix == ret.detailed_flows
        IN  /\ lives = {} => N = 0
            /\ lives /= {} =>
                   /\ N > 0
                   /\ \A l \in lives : N % l = 0
                   /\ \A m \in 1 .. N - 1 : \E l \in lives : m % l /= 0
            /\ Len(rows) = Len(Participants)
            /\ \A i \in 1 .. Len(rows) :
                   /\ rows[i].life_span > 0
                   /\ rows[i].life_span = Participants[i].life_span
                   /\ rows[i].name = DisplayName(Participants[i].name)
            /\ Len(matrix) <= Len(Participants)
            /\ \A c \in 1 .. Len(matrix) :
                   \E i \in 1 .. Len(Participants) :
                       matrix[c].key = DisplayName(Participants[i].name)
            /\ ret.winner /= <<>> =>
                   /\ ret.winner[1].life_span > 0
                   /\ \E i \in 1 .. Len(rows) : rows[i] = ret.winner[1]

C10_Witness ==
    /\ Analysed
    /\ Len(project_list) = 2
    /\ project_list[1].life_span = 0 /\ project_list[1].name = "A"
    /\ project_list[1].investment = 0
    /\ project_list[2].life_span = 3 /\ project_list[2].name = ""
    /\ project_list[2].investment = 100
    /\ ret.study_period = 3
    /\ Len(ret.results_df) = 1
    /\ Len(ret.detailed_flows) = 1
    /\ ret.detailed_flows[1].key = "Unnamed Project"
    /\ ret.winner[1].name = "Unnamed Project"

\* C11: when the list is empty or holds no project with a positive life
\* span, the run returns study period 0, no result row, no column and no
\* winner; and no run calls generate_cash_flows or calculate_npv with a study
\* period of 0.
C11_NothingToAnalyse ==
    Analysed =>
        /\ Participants = <<>> =>
               /\ ret.study_period = 0
               /\ ret.results_df = <<>>
               /\ ret.detailed_flows = <<>>
               /\ ret.winner = <<>>
               /\ ret.calls = <<>>
        /\ \A c \in 1 .. Len(ret.calls) : ret.calls[c].study_period > 0

C11_Witness ==
    /\ Analysed
    /\ Len(project_list) = 2
    /\ project_list[1].life_span = 0 /\ project_list[1].investment = 100
    /\ project_list[2].life_span = -1
    /\ ret.study_period = 0
    /\ ret.calls = <<>>

---------------------------------------------------------------------------
(* Further properties of calculate_npv *)

\* The sum of the entries 0..n of fl
RECURSIVE PlainSumUpTo(_, _)
PlainSumUpTo(fl, n) == IF n < 0 THEN 0 ELSE PlainSumUpTo(fl, n - 1) + fl[n]

PlainSum(fl) == PlainSumUpTo(fl, Len0(fl) - 1)

\* C12: at rate_percent = 0 the result is the plain sum of the entries of the
\* series.
C12_ZeroRateIsPlainSum ==
    (Discounted /\ marr_percent = 0) => ret = Whole(PlainSum(flows))

C12_Witness ==
    /\ Discounted
    /\ marr_percent = 0
    /\ Len0(flows) = 3
    /\ flows[0] = -100 /\ flows[1] = 110 /\ flows[2] = 1000
    /\ ret = Whole(1010)

\* C13: for a series [-P, P * (1 + p/100)] the result at rate_percent = p is
\* within 0.01 of 0; [-100, 110] at 10% gives 0.
C13_ZeroCrossing ==
    (/\ Discounted
     /\ marr_percent /= -100
     /\ Len0(flows) = 2
     /\ flows[1] * 100 = (-flows[0]) * (100 + marr_percent)) =>
        /\ IsFinite(ret)
        /\ Leq(Frac(-1, 100), ret)
        /\ Leq(ret, Frac(1, 100))

C13_Witness ==
    /\ Discounted
    /\ marr_percent = 10
    /\ Len0(flows) = 2
    /\ flows[0] = -100 /\ flows[1] = 110
    /\ ret = Whole(0)

\* The entries after year 0 are inflows: none is negative, one is positive
InflowsLater(fl) ==
    /\ \A t \in DOMAIN fl : t > 0 => fl[t] >= 0
    /\ \E t \in DOMAIN fl : t > 0 /\ fl[t] > 0

\* The sum is concentrated in the early years: over two years or more, the
\* first half of the years holds more than the second half
ConcentratedEarly(fl) ==
    LET half == (Len0(fl) - 1) \div 2
    IN  Len0(fl) >= 2 /\ 2 * PlainSumUpTo(fl, half) > PlainSum(fl)

\* C14 as claimed: for a series with a positive sum concentrated in the early
\* years, the NPV at any rate r2 is below the NPV at any rate r1 with
\* 0 <= r1 < r2.
C14_DecreasingWhenEarly ==
    (/\ Discounted
     /\ marr_percent >= 0
     /\ PlainSum(flows) > 0
     /\ ConcentratedEarly(flows)) =>
        \A r2 \in Rates :
            r2 > marr_percent => Less(calculate_npv(flows, r2), ret)

\* C14 as amended: for a series with a positive sum whose entries after year
\* 0 are inflows (none negative, one positive), the NPV at any rate r2 is
\* below the NPV at any rate r1 with 0 <= r1 < r2.
C14_DecreasingWhenInflowsLater ==
    (/\ Discounted
     /\ marr_percent >= 0
     /\ PlainSum(flows) > 0
     /\ InflowsLater(flows)) =>
        \A r2 \in Rates :
            r2 > marr_percent => Less(calculate_npv(flows, r2), ret)

C14_Witness ==
    /\ Discounted
    /\ marr_percent = 0
    /\ Len0(flows) = 3
    /\ flows[0] = -100 /\ flows[1] = 0 /\ flows[2] = 110
    /\ ret = Whole(10)
    /\ Less(calculate_npv(flows, 10), ret)
    /\ Less(calculate_npv(flows, 100), calculate_npv(flows, 10))

---------------------------------------------------------------------------
(* Further properties of run_full_analysis *)

\* The rows of results_df holding the greatest NPV
TopRows(rows) ==
    {i \in 1 .. Len(rows) : \A j \in 1 .. Len(rows) : Leq(rows[j].npv, rows[i].npv)}

Reversed(list) == [i \in 1 .. Len(list) |-> list[Len(list) + 1 - i]]

\* C15: when several participating projects share the greatest NPV the
\* winner is the first of them in the order of the list; listing tied
\* projects in the other order makes the one now first the winner.
C15_FirstOfTiedWins ==
    (Analysed /\ ret.winner /= <<>>) =>
        LET rows == ret.results_df
            first == CHOOSE i \in TopRows(rows) : \A j \in TopRows(rows) : i <= j
            swapped == run_full_analysis(Reversed(project_list), marr_percent)
        IN  /\ ret.winner[1] = rows[first]
            /\ TopRows(rows) = 1 .. Len(rows) =>
                   swapped.winner[1] = rows[Len(rows)]

C15_Witness ==
    /\ Analysed
    /\ Len(ret.results_df) = 2
    /\ ret.results_df[1].npv = ret.results_df[2].npv
    /\ ret.results_df[1].name = "A"
    /\ ret.results_df[2].name = "Unnamed Project"
    /\ ret.winner[1].name = "A"
    /\ run_full_analysis(Reversed(project_list), marr_percent).winner[1].name
           = "Unnamed Project"

\* C17 as claimed: the matrix has one column for each participating project,
\* as many columns as results_df has rows, and every column has an entry for
\* each year 0..N, also when names repeat or are blank.
C17_MatrixComplete ==
    Analysed =>
        /\ Len(ret.detailed_flows) = Len(ret.results_df)
        /\ Len(ret.detailed_flows) = Len(Participants)
        /\ \A c \in 1 .. Len(ret.detailed_flows) :
               DOMAIN ret.detailed_flows[c].value = 0 .. ret.study_period

\* C19 as claimed: blank-named participating projects at different positions
\* carry different names in the results.
C19_BlankNamesDiffer ==
    Analysed =>
        \A i, j \in 1 .. Len(Participants) :
            (i < j /\ Participants[i].name = "" /\ Participants[j].name = "") =>
                ret.results_df[i].name /= ret.results_df[j].name

\* The item of the dict d stored under the key k
ItemAt(d, k) == d[CHOOSE c \in 1 .. Len(d) : d[c].key = k]

---------------------------------------------------------------------------
(* Properties of the session *)

\* C20: whatever was added, deleted, cleared, changed and calculated before,
\* the analysis a run displays is the one an uncached call returns for the
\* list and the rate of that run, and every cached entry is the analysis of
\* the list and rate it is filed under.
C20_CacheShowsCurrentAnalysis ==
    /\ shown /= <<>> => shown[1] = run_full_analysis(session_projects, session_marr)
    /\ \A e \in cache : e.value = run_full_analysis(e.key[1], e.key[2])

C20_Witness ==
    /\ served = "hit"
    /\ shown /= <<>>
    /\ Cardinality(cache) >= 2
    /\ Len(session_projects) = 2
    /\ shown[1].study_period = 2

---------------------------------------------------------------------------
(* Life cycles within the study period *)

\* The series run_full_analysis generates for the project p
SeriesOf(p, N) ==
    generate_cash_flows(p.investment, p.revenue, p.cost, p.savings, p.salvage,
                        p.replacement, p.life_span, N)

NetAnnual(p) == p.revenue - p.cost + p.savings

\* The amounts of p tell a salvage and a replacement apart in a yearly entry
Distinguishable(p) ==
    /\ p.salvage /= 0
    /\ p.replacement /= 0
    /\ p.salvage /= p.replacement

SalvageYears(fl, p, N) ==
    {t \in 1 .. N : fl[t] \in {NetAnnual(p) + p.salvage,
                               NetAnnual(p) + p.salvage - p.replacement}}

ReplacementYears(fl, p, N) ==
    {t \in 1 .. N : fl[t] \in {NetAnnual(p) - p.replacement,
                               NetAnnual(p) + p.salvage - p.replacement}}

RECURSIVE TotalAfterYear0(_, _)
TotalAfterYear0(fl, n) == IF n = 0 THEN 0 ELSE TotalAfterYear0(fl, n - 1) + fl[n]

\* C21: in a run with a study period N /= 0 the life span L of every
\* participating project divides N; its series holds N/L salvage additions,
\* at the years L, 2L, ..., N, and N/L - 1 replacement subtractions, at the
\* years L, 2L, ..., N - L, so that the years 1..N add up to
\* N * net + (N/L) * salvage - (N/L - 1) * replacement.
C21_WholeLifeCycles ==
    (Analysed /\ ret.study_period /= 0) =>
        \A i \in 1 .. Len(Participants) :
            LET p == Participants[i]
                L == p.life_span
                N == ret.study_period
                fl == SeriesOf(p, N)
            IN  /\ N % L = 0
                /\ TotalAfterYear0(fl, N)
                     = N * NetAnnual(p) + (N \div L) * p.salvage
                       - ((N \div L) - 1) * p.replacement
                /\ Distinguishable(p) =>
                       /\ SalvageYears(fl, p, N) = {k * L : k \in 1 .. N \div L}
                       /\ Cardinality(SalvageYears(fl, p, N)) = N \div L
                       /\ ReplacementYears(fl, p, N)
                            = {k * L : k \in 1 .. (N \div L) - 1}
                       /\ Cardinality(ReplacementYears(fl, p, N)) = (N \div L) - 1

C21_Witness ==
    /\ Analysed
    /\ ret.study_period = 6
    /\ Len(Participants) = 2
    /\ Participants[1].life_span = 2
    /\ Participants[2].life_span = 3
    /\ Distinguishable(Participants[1])
    /\ Cardinality(SalvageYears(SeriesOf(Participants[1], 6), Participants[1], 6)) = 3
    /\ Cardinality(ReplacementYears(SeriesOf(Participants[1], 6), Participants[1], 6)) = 2

\* The final-year entry of a generated series is the net annual flow plus the
\* salvage, with no replacement subtracted
FinalYearSalvageOnly ==
    ret[study_period] = NetAnnual(project) + project.salvage

\* C22 as stated: with a life span > 0 and any study period N > 0 the
\* final-year entry flows[N] is net_annual + salvage, without the replacement.
C22_FinalYearAnyPeriod ==
    (Generated /\ project.life_span > 0 /\ study_period > 0) =>
        FinalYearSalvageOnly

\* C22: with a life span L > 0 and a study period N > 0 that L divides, the
\* final-year entry flows[N] is net_annual + salvage, without the replacement;
\* when L does not divide N the year N ends no life cycle and flows[N] is
\* net_annual alone.
C22_FinalYear ==
    (Generated /\ project.life_span > 0 /\ study_period > 0) =>
        IF study_period % project.life_span = 0
        THEN FinalYearSalvageOnly
        ELSE ret[study_period] = NetAnnual(project)

C22_Witness ==
    /\ Generated
    /\ project.life_span = 2
    /\ study_period = 4
    /\ project.salvage = 200
    /\ project.replacement = 1000
    /\ ret[4] = NetAnnual(project) + 200
    /\ ret[2] = NetAnnual(project) + 200 - 1000

\* C23: a run that changes the list of projects (add, delete, clear) leaves
\* show_results False; show_results becomes True only in a run where
\* Calculate Analysis is pressed; and results are displayed only while
\* show_results is True and the list is not empty: hence only when Calculate
\* Analysis was pressed after the latest change of the list.
C23_ResultsOnlyAfterCalculate ==
    /\ [](shown /= <<>> => (show_results /\ session_projects /= <<>>))
    /\ [][session_projects' /= session_projects => ~show_results']_vars
    /\ [][(show_results' /\ ~show_results) => CalculateAnalysis]_vars

\* Results of a second list on display: the list changed after an analysis
\* was shown, and Calculate Analysis was pressed again
C23_Witness ==
    /\ shown /= <<>>
    /\ show_results
    /\ served = "miss"
    /\ Cardinality({e.key[1] : e \in cache}) >= 2

\* The list without its i-th project
RemoveAt(list, i) == SubSeq(list, 1, i - 1) \o SubSeq(list, i + 1, Len(list))

\* C24: Delete Selected pressed on a project removes that project and no
\* other, the rest keeping their order; pressed on the placeholder
\* "Select..." it leaves the list and show_results as they were.
C24_DeleteRemovesExactlyOne ==
    [][DeleteSelected =>
           IF to_delete' = "Select..."
           THEN UNCHANGED <<session_projects, show_results>>
           ELSE \E i \in 1 .. Len(session_projects) :
                    /\ session_projects[i].name = to_delete'
                    /\ session_projects' = RemoveAt(session_projects, i)]_vars

\* C25: as long as every project was added under the default name of the
\* form, whatever was deleted in between, the names of the list are pairwise
\* distinct.
C25_DefaultNamesDistinct ==
    defaults_kept =>
        \A i, j \in 1 .. Len(session_projects) :
            i /= j => session_projects[i].name /= session_projects[j].name

\* C26: the series stored under the winner's name, discounted at the rate of
\* the analysis, gives the NPV reported for the winner.
C26_WinnerSeriesGivesWinnerNpv ==
    (Analysed /\ ret.winner /= <<>>) =>
        calculate_npv(ItemAt(ret.detailed_flows, ret.winner[1].name).value,
                      marr_percent) = ret.winner[1].npv

===========================================================================
